---- MODULE Spec2Model ----
(***************************************************************************)
(* Model of whatsapp-mcp-server/main.py: the keyword chat lists            *)
(* (get_list_chats, show_all_lists, _load_chat_lists), the send_message    *)
(* tool and the list_messages tool with its context windows.               *)
(*                                                                         *)
(* Strings are sequences of one-character strings.  Python's None and      *)
(* SQL's NULL are the one-element sequence Null, whose element is no       *)
(* character, so that it can be compared with every string.                *)
(***************************************************************************)
EXTENDS Integers, Sequences, FiniteSets, TLC

VARIABLES
    chat_lists_file,  \* the file at CHAT_LISTS_PATH: [exists, content]
    messages_db,      \* store/messages.db: [chats, messages]
    pc,               \* position of the running tool call
    op,               \* the tool that is running
    list_name,        \* argument of get_list_chats
    lists,            \* local of get_list_chats / show_all_lists
    matched_key,      \* local of get_list_chats
    keywords,         \* local of get_list_chats
    all_chats,        \* local of get_list_chats: cursor.fetchall()
    matches,          \* local of get_list_chats
    read_log,         \* outcomes of the store reads made by the running call
    file_reads,       \* contents json.load returned to the running call
    result,           \* value returned by the tool call
    outbox,           \* texts the transport was asked to send
    transport_reply,  \* what the transport answered to the last request
    send_args,        \* arguments of the last send_message call
    send_result,      \* value returned by the last send_message call
    history,          \* stored messages read by list_messages
    ctx_args,         \* arguments of the last list_messages call
    ctx_result        \* value returned by the last list_messages call

listVars == <<chat_lists_file, messages_db, pc, op, list_name, lists,
              matched_key, keywords, all_chats, matches, read_log, file_reads,
              result>>

sendVars == <<outbox, transport_reply, send_args, send_result>>
ctxVars == <<history, ctx_args, ctx_result>>

vars == <<listVars, sendVars, ctxVars>>

----------------------------------------------------------------------------
(* Bounds *)

MaxLists == 2      \* lists in one chat_lists.json
MaxChats == 3      \* rows of the chats table

PreviewBudget == 60

----------------------------------------------------------------------------
(* Strings *)

Null == <<"None">>
NullTime == 0

Lower(ch) == CASE ch = "A" -> "a" [] ch = "B" -> "b" [] OTHER -> ch

\* str.lower()
lower(s) == [i \in 1..Len(s) |-> Lower(s[i])]

\* Python's `sub in s`
str_in(sub, s) ==
    \E i \in 0..(Len(s) - Len(sub)) : SubSeq(s, i + 1, i + Len(sub)) = sub

\* Python truthiness of an Optional[str]
Truthy(v) == v # Null /\ v # <<>>

\* (v or '')
or_empty(v) == IF Truthy(v) THEN v ELSE <<>>

RECURSIVE join(_, _)
\* sep.join(parts)
join(sep, parts) ==
    IF Len(parts) = 0 THEN <<>>
    ELSE IF Len(parts) = 1 THEN parts[1]
    ELSE parts[1] \o sep \o join(sep, Tail(parts))

CommaSpace == <<",", " ">>
Ellipsis == <<".", ".", ".">>

\* a text of n characters
Text(n) == [i \in 1..n |-> IF i % 2 = 1 THEN "a" ELSE "b"]

Range(s) == {s[i] : i \in 1..Len(s)}

----------------------------------------------------------------------------
(* Inputs: chat_lists.json contents and the chats/messages tables *)

Entries ==
    { [label |-> <<"A">>, keywords |-> << <<"A">> >>],
      [label |-> <<"a">>, keywords |-> << <<"a", "b">>, <<"B">> >>],
      [label |-> <<>>,    keywords |-> << <<"b">> >>],
      [label |-> <<"b">>, keywords |-> <<>>],
      [label |-> <<"b">>, keywords |-> << <<>> >>] }

\* a JSON object: keys are unique, insertion order is kept
IsDict(d) == \A i, j \in 1..Len(d) : d[i].label = d[j].label => i = j

Dicts == UNION { {d \in [1..n -> Entries] : IsDict(d)} : n \in 0..MaxLists }

NoFile == [exists |-> FALSE, content |-> <<>>]
File(d) == [exists |-> TRUE, content |-> d]

\* what a concurrent writer puts in place of chat_lists.json
NewDicts ==
    { <<>>,
      << [label |-> <<"a">>, keywords |-> << <<"A">> >>] >>,
      << [label |-> <<"A">>, keywords |-> << <<"b">> >>],
         [label |-> <<"B">>, keywords |-> << <<"a">> >>] >> }

ListNames == { <<>>, <<"a">>, <<"A">>, <<"b">>, <<"B">>, <<"a", "b">> }

ChatUniverse ==
    { [jid |-> 1, name |-> <<"b", "A">>, last_message_time |-> 3],
      [jid |-> 2, name |-> <<"b">>,      last_message_time |-> 3],
      [jid |-> 3, name |-> <<>>,         last_message_time |-> 4],
      [jid |-> 4, name |-> Null,         last_message_time |-> 2],
      [jid |-> 5, name |-> <<"a">>,      last_message_time |-> NullTime],
      [jid |-> 6, name |-> <<"A", "b">>, last_message_time |-> 2] }

MessageUniverse ==
    { [id |-> 1, chat_jid |-> 1, timestamp |-> 3, content |-> Text(PreviewBudget + 1)],
      [id |-> 2, chat_jid |-> 1, timestamp |-> 1, content |-> Text(3)],
      [id |-> 3, chat_jid |-> 2, timestamp |-> 3, content |-> Text(PreviewBudget)],
      [id |-> 4, chat_jid |-> 2, timestamp |-> 3, content |-> <<>>],
      [id |-> 5, chat_jid |-> 3, timestamp |-> 4, content |-> Text(3)],
      [id |-> 6, chat_jid |-> 6, timestamp |-> 2, content |-> Text(PreviewBudget + 2)],
      [id |-> 7, chat_jid |-> 4, timestamp |-> 2, content |-> Null] }

Stores ==
    { [chats |-> cs,
       messages |-> {m \in MessageUniverse : \E c \in cs : c.jid = m.chat_jid}]
      : cs \in {x \in SUBSET ChatUniverse : Cardinality(x) <= MaxChats} }

----------------------------------------------------------------------------
(* Pure parts of get_list_chats and show_all_lists *)

Keys(d) == [i \in 1..Len(d) |-> d[i].label]

\* lists[key]
Lookup(d, key) ==
    LET i == CHOOSE i \in 1..Len(d) : d[i].label = key IN d[i].keywords

\* next((k for k in lists if k.lower() == list_name.lower()), None)
first_key(d, name) ==
    LET hits == {i \in 1..Len(d) : lower(d[i].label) = lower(name)}
    IN  IF hits = {} THEN Null
        ELSE d[CHOOSE i \in hits : \A j \in hits : i <= j].label

\* Mutant: the keywords are looked up in chat_lists.json as it is now, not in
\* the dictionary the request loaded.
lookup_keywords_reload(d, key) ==
    IF \E i \in 1..Len(chat_lists_file.content) : chat_lists_file.content[i].label = key
    THEN Lookup(chat_lists_file.content, key)
    ELSE <<>>

\* keywords = lists[matched_key]
lookup_keywords(d, key) == Lookup(d, key)

\* The SELECT: chats with name != '' LEFT JOIN messages on jid and
\* last_message_time = timestamp.  One row per joined message, one row with a
\* NULL last_message for a chat that joins none.
JoinPairs(db) ==
    LET named == {c \in db.chats : c.name # Null /\ c.name # <<>>}
        joined(c) == {m \in db.messages :
                        /\ m.chat_jid = c.jid
                        /\ c.last_message_time # NullTime
                        /\ m.timestamp = c.last_message_time}
    IN  UNION { IF joined(c) = {} THEN {<<c, 0>>}
                ELSE {<<c, m.id>> : m \in joined(c)} : c \in named }

Row(db, p) ==
    [jid |-> p[1].jid, name |-> p[1].name, last_time |-> p[1].last_message_time,
     last_msg |-> IF p[2] = 0 THEN Null
                  ELSE (CHOOSE m \in db.messages : m.id = p[2]).content]

\* Mutant: the SELECT without its ORDER BY.
select_chats_unordered(db) ==
    LET P == JoinPairs(db)
        n == Cardinality(P)
    IN  { [i \in 1..n |-> Row(db, f[i])] :
            f \in { g \in [1..n -> P] : \A i, j \in 1..n : g[i] = g[j] => i = j } }

\* ORDER BY c.last_message_time DESC: NULL sorts below every value; the order
\* of rows with equal times is not fixed by the query.
select_chats(db) ==
    LET P == JoinPairs(db)
        n == Cardinality(P)
    IN  { [i \in 1..n |-> Row(db, f[i])] :
            f \in { g \in [1..n -> P] :
                      /\ \A i, j \in 1..n : g[i] = g[j] => i = j
                      /\ \A i, j \in 1..n :
                           i < j => g[i][1].last_message_time >= g[j][1].last_message_time } }

\* any(kw.lower() in (name or '').lower() for kw in keywords)
any_keyword(kws, name) ==
    \E k \in 1..Len(kws) : str_in(lower(kws[k]), lower(or_empty(name)))

RECURSIVE filter_rows(_, _)
\* the list comprehension building `matches`
filter_rows(rows, kws) ==
    IF rows = <<>> THEN <<>>
    ELSE IF any_keyword(kws, Head(rows).name)
         THEN <<Head(rows)>> \o filter_rows(Tail(rows), kws)
         ELSE filter_rows(Tail(rows), kws)

\* Mutant: a message of exactly 60 characters is cut as well.
preview_of_ge(last_msg) ==
    IF Truthy(last_msg) /\ Len(last_msg) >= PreviewBudget
    THEN SubSeq(last_msg, 1, PreviewBudget) \o Ellipsis
    ELSE or_empty(last_msg)

\* (last_msg[:60] + "...") if last_msg and len(last_msg) > 60 else (last_msg or "")
preview_of(last_msg) ==
    IF Truthy(last_msg) /\ Len(last_msg) > PreviewBudget
    THEN SubSeq(last_msg, 1, PreviewBudget) \o Ellipsis
    ELSE or_empty(last_msg)

\* the text returned for a non-empty `matches`
listing(key, ms) ==
    [kind |-> "Listing", matched_key |-> key, count |-> Len(ms),
     lines |-> [i \in 1..Len(ms) |->
                  [name |-> ms[i].name, last_time |-> ms[i].last_time,
                   preview |-> preview_of(ms[i].last_msg)]]]

no_chats(key, kws) == [kind |-> "NoChats", matched_key |-> key, keywords |-> kws]

not_found(name, d) ==
    [kind |-> "NotFound", list_name |-> name, available |-> join(CommaSpace, Keys(d))]

NoLists == [kind |-> "NoLists"]
DbError == [kind |-> "DbError"]
Raised == [kind |-> "Raised", error |-> "FileNotFoundError"]
NoResult == [kind |-> "None"]

all_lists(d) ==
    [kind |-> "AllLists",
     lines |-> [i \in 1..Len(d) |->
                  [list_name |-> d[i].label,
                   keywords |-> join(CommaSpace, d[i].keywords)]]]

----------------------------------------------------------------------------
(* State machine of the chat-list tools *)

NoCall ==
    /\ pc = "idle"
    /\ op = "none"
    /\ list_name = <<>>
    /\ lists = <<>>
    /\ matched_key = Null
    /\ keywords = <<>>
    /\ all_chats = <<>>
    /\ matches = <<>>
    /\ read_log = <<>>
    /\ file_reads = <<>>
    /\ result = NoResult

Persisted == <<chat_lists_file, messages_db>>
Others == <<sendVars, ctxVars>>
Locals == <<lists, matched_key, keywords, all_chats, matches>>
Logs == <<read_log, file_reads>>

\* a client calls get_list_chats(name)
call_get_list_chats ==
    /\ pc \in {"idle", "done"}
    /\ \E name \in ListNames : list_name' = name
    /\ op' = "get_list_chats"
    /\ pc' = "exists"
    /\ lists' = <<>> /\ matched_key' = Null /\ keywords' = <<>>
    /\ all_chats' = <<>> /\ matches' = <<>>
    /\ read_log' = <<>>
    /\ file_reads' = <<>>
    /\ result' = NoResult
    /\ UNCHANGED <<Persisted, Others>>

\* a client calls show_all_lists()
call_show_all_lists ==
    /\ pc \in {"idle", "done"}
    /\ op' = "show_all_lists"
    /\ pc' = "exists"
    /\ list_name' = <<>>
    /\ lists' = <<>> /\ matched_key' = Null /\ keywords' = <<>>
    /\ all_chats' = <<>> /\ matches' = <<>>
    /\ read_log' = <<>>
    /\ file_reads' = <<>>
    /\ result' = NoResult
    /\ UNCHANGED <<Persisted, Others>>

\* Mutant: a missing chat_lists.json is created empty.
load_exists_creating ==
    /\ pc = "exists"
    /\ IF chat_lists_file.exists
       THEN pc' = "open" /\ lists' = lists /\ UNCHANGED chat_lists_file
       ELSE pc' = "loaded" /\ lists' = <<>> /\ chat_lists_file' = File(<<>>)
    /\ UNCHANGED <<Others, messages_db, op, list_name, matched_key, keywords, all_chats,
                   matches, Logs, result>>

\* _load_chat_lists: os.path.exists(CHAT_LISTS_PATH)
load_exists ==
    /\ pc = "exists"
    /\ IF chat_lists_file.exists
       THEN pc' = "open" /\ lists' = lists
       ELSE pc' = "loaded" /\ lists' = <<>>
    /\ UNCHANGED <<Others, Persisted, op, list_name, matched_key, keywords, all_chats,
                   matches, Logs, result>>

\* _load_chat_lists: open(CHAT_LISTS_PATH) and json.load
load_open ==
    /\ pc = "open"
    /\ IF chat_lists_file.exists
       THEN /\ pc' = "loaded"
            /\ lists' = chat_lists_file.content
            /\ file_reads' = Append(file_reads, chat_lists_file.content)
            /\ result' = result
       ELSE /\ pc' = "done"                       \* FileNotFoundError
            /\ result' = Raised
            /\ UNCHANGED <<lists, file_reads>>
    /\ UNCHANGED <<Others, Persisted, op, list_name, matched_key, keywords, all_chats,
                   matches, read_log>>

\* get_list_chats from `if not lists` to `keywords = lists[matched_key]`
resolve ==
    /\ pc = "loaded" /\ op = "get_list_chats"
    /\ IF lists = <<>>
       THEN /\ result' = NoLists /\ pc' = "done"
            /\ UNCHANGED <<matched_key, keywords>>
       ELSE LET key == first_key(lists, list_name)
            IN  /\ matched_key' = key
                /\ IF ~Truthy(key)
                   THEN /\ result' = not_found(list_name, lists) /\ pc' = "done"
                        /\ UNCHANGED keywords
                   ELSE /\ keywords' = lookup_keywords(lists, key)
                        /\ pc' = "query"
                        /\ UNCHANGED result
    /\ UNCHANGED <<Others, Persisted, op, list_name, lists, all_chats, matches, Logs>>

\* Mutant: a failed read is tried once more.
query_retrying ==
    /\ pc = "query"
    /\ \/ /\ read_log' = Append(read_log, "error")
          /\ IF Len(read_log) = 0
             THEN pc' = "query" /\ UNCHANGED result
             ELSE pc' = "done" /\ result' = DbError
          /\ UNCHANGED <<all_chats, matches>>
       \/ \E rows \in select_chats(messages_db) :
            LET ms == filter_rows(rows, keywords)
            IN  /\ pc' = "done"
                /\ read_log' = Append(read_log, "ok")
                /\ all_chats' = rows
                /\ matches' = ms
                /\ result' = IF ms = <<>> THEN no_chats(matched_key, keywords)
                             ELSE listing(matched_key, ms)
    /\ UNCHANGED <<Others, Persisted, op, list_name, lists, matched_key, keywords,
                   file_reads>>

\* get_list_chats from the sqlite3 query to its return
query ==
    /\ pc = "query"
    /\ pc' = "done"
    /\ \/ /\ read_log' = Append(read_log, "error")      \* sqlite3.Error
          /\ result' = DbError
          /\ UNCHANGED <<all_chats, matches>>
       \/ \E rows \in select_chats(messages_db) :
            LET ms == filter_rows(rows, keywords)
            IN  /\ read_log' = Append(read_log, "ok")
                /\ all_chats' = rows
                /\ matches' = ms
                /\ result' = IF ms = <<>> THEN no_chats(matched_key, keywords)
                             ELSE listing(matched_key, ms)
    /\ UNCHANGED <<Others, Persisted, op, list_name, lists, matched_key, keywords,
                   file_reads>>

\* show_all_lists after _load_chat_lists
show_lists ==
    /\ pc = "loaded" /\ op = "show_all_lists"
    /\ result' = IF lists = <<>> THEN NoLists ELSE all_lists(lists)
    /\ pc' = "done"
    /\ UNCHANGED <<Others, Persisted, op, list_name, Locals, Logs>>

\* the user edits chat_lists.json while the server runs
replace_chat_lists ==
    /\ \E d \in NewDicts : chat_lists_file' = File(d)
    /\ chat_lists_file' # chat_lists_file
    /\ UNCHANGED <<Others, messages_db, pc, op, list_name, Locals, Logs, result>>

\* the user deletes chat_lists.json
delete_chat_lists ==
    /\ chat_lists_file.exists
    /\ chat_lists_file' = NoFile
    /\ UNCHANGED <<Others, messages_db, pc, op, list_name, Locals, Logs, result>>

----------------------------------------------------------------------------
(* send_message and the transport it calls *)

MaxSends == 2      \* texts handed to the transport

Recipients == { <<>>, <<"1">>, <<"1", "@", "g">> }
Bodies == { <<>>, <<"a">> }

\* what whatsapp_send_message can answer: (success, status_message)
TransportReplies ==
    { [ok |-> TRUE,  status |-> "Message sent"],
      [ok |-> FALSE, status |-> "Request error"],
      [ok |-> FALSE, status |-> "Message sent"],
      [ok |-> TRUE,  status |-> ""] }

NoReply == [ok |-> FALSE, status |-> "none"]
NoArgs == [recipient |-> <<>>, message |-> <<>>]
NoSend == [success |-> FALSE, message |-> "none"]

SendIdle ==
    /\ outbox = <<>>
    /\ transport_reply = NoReply
    /\ send_args = NoArgs
    /\ send_result = NoSend

\* Mutant: the transport is called before the recipient is validated.
send_message_unvalidated(recipient, message) ==
    /\ Len(outbox) < MaxSends
    /\ send_args' = [recipient |-> recipient, message |-> message]
    /\ \E reply \in TransportReplies :
         /\ outbox' = Append(outbox, [recipient |-> recipient, body |-> message])
         /\ transport_reply' = reply
         /\ send_result' = IF ~Truthy(recipient)
                           THEN [success |-> FALSE, message |-> "Recipient must be provided"]
                           ELSE [success |-> reply.ok, message |-> reply.status]

\* send_message(recipient, message)
send_message(recipient, message) ==
    /\ send_args' = [recipient |-> recipient, message |-> message]
    /\ IF ~Truthy(recipient)
       THEN /\ send_result' = [success |-> FALSE, message |-> "Recipient must be provided"]
            /\ UNCHANGED <<outbox, transport_reply>>
       ELSE /\ Len(outbox) < MaxSends
            /\ \E reply \in TransportReplies :
                 /\ outbox' = Append(outbox, [recipient |-> recipient, body |-> message])
                 /\ transport_reply' = reply
                 /\ send_result' = [success |-> reply.ok, message |-> reply.status]

call_send_message ==
    /\ \E recipient \in Recipients, message \in Bodies : send_message(recipient, message)
    /\ UNCHANGED <<listVars, ctxVars>>

----------------------------------------------------------------------------
(* list_messages and the context windows of its matches *)

MaxMatches == 2    \* matched messages of one list_messages call
MaxContext == 1    \* context_before and context_after range over 0..MaxContext

HistoryUniverse ==
    { [id |-> 1, chat_jid |-> 1, timestamp |-> 10],
      [id |-> 2, chat_jid |-> 1, timestamp |-> 20],
      [id |-> 3, chat_jid |-> 1, timestamp |-> 20],
      [id |-> 4, chat_jid |-> 1, timestamp |-> 30],
      [id |-> 5, chat_jid |-> 1, timestamp |-> 40],
      [id |-> 1, chat_jid |-> 2, timestamp |-> 15],
      [id |-> 2, chat_jid |-> 2, timestamp |-> 25] }

\* chronological order, ties broken by identifier
Earlier(m1, m2) ==
    \/ m1.timestamp < m2.timestamp
    \/ m1.timestamp = m2.timestamp /\ m1.id < m2.id

RECURSIVE Chronological(_)
Chronological(S) ==
    IF S = {} THEN <<>>
    ELSE LET m == CHOOSE x \in S : \A y \in S \ {x} : Earlier(x, y)
         IN  <<m>> \o Chronological(S \ {m})

ChatMessages(h, chat) == Chronological({m \in h : m.chat_jid = chat})

PosOf(seq, m) == CHOOSE i \in 1..Len(seq) : seq[i] = m

Max(a, b) == IF a >= b THEN a ELSE b
Min(a, b) == IF a <= b THEN a ELSE b

\* the positions of a match's window: `before` predecessors, `after` successors
Window(n, p, before, after) == Max(1, p - before)..Min(n, p + after)

Tagged(m, tag) ==
    [id |-> m.id, chat_jid |-> m.chat_jid, timestamp |-> m.timestamp, tag |-> tag]

RECURSIVE Flatten(_)
Flatten(ss) == IF ss = <<>> THEN <<>> ELSE Head(ss) \o Flatten(Tail(ss))

RECURSIVE Ascending(_)
Ascending(S) ==
    IF S = {} THEN <<>>
    ELSE LET x == CHOOSE y \in S : \A z \in S : y <= z
         IN  <<x>> \o Ascending(S \ {x})

\* Mutant: the windows of a run are concatenated, nothing is deduplicated.
fused_run_concat(H, P, before, after, lo, hi) ==
    LET ps == Ascending({p \in P : lo <= p /\ p <= hi})
        win(p) == LET w == Ascending(Window(Len(H), p, before, after))
                  IN  [k \in 1..Len(w) |->
                         Tagged(H[w[k]], IF w[k] = p THEN "match" ELSE "context")]
    IN  Flatten([k \in 1..Len(ps) |-> win(ps[k])])

\* one fused run: the messages at positions lo..hi of the chat, each once, a
\* match keeping its tag
fused_run(H, P, before, after, lo, hi) ==
    [k \in 1..(hi - lo + 1) |->
       Tagged(H[lo + k - 1], IF (lo + k - 1) \in P THEN "match" ELSE "context")]

\* the runs of one chat, in chronological order
chat_runs(h, chat, ms, before, after) ==
    LET H == ChatMessages(h, chat)
        P == {PosOf(H, ms[i]) : i \in {j \in 1..Len(ms) : ms[j].chat_jid = chat}}
        covered == UNION {Window(Len(H), p, before, after) : p \in P}
        starts == Ascending({p \in covered : (p - 1) \notin covered})
        end(lo) == CHOOSE q \in covered :
                      /\ q >= lo
                      /\ \A r \in lo..q : r \in covered
                      /\ (q + 1) \notin covered
    IN  [k \in 1..Len(starts) |-> fused_run(H, P, before, after, starts[k], end(starts[k]))]

RECURSIVE ChatsInOrder(_, _)
\* the chats of the matches, in the order they first appear
ChatsInOrder(ms, seen) ==
    IF ms = <<>> THEN <<>>
    ELSE IF Head(ms).chat_jid \in seen THEN ChatsInOrder(Tail(ms), seen)
         ELSE <<Head(ms).chat_jid>> \o ChatsInOrder(Tail(ms), seen \cup {Head(ms).chat_jid})

\* whatsapp.list_messages: the context window assembler
whatsapp_list_messages(h, a) ==
    IF ~a.include_context
    THEN [i \in 1..Len(a.matches) |-> <<Tagged(a.matches[i], "match")>>]
    ELSE LET chats == ChatsInOrder(a.matches, {})
         IN  Flatten([c \in 1..Len(chats) |->
                        chat_runs(h, chats[c], a.matches, a.context_before, a.context_after)])

\* the list_messages tool
list_messages(h, a) == whatsapp_list_messages(h, a)

Injective(s) == \A i, j \in 1..Len(s) : s[i] = s[j] => i = j

MatchSeqs(h) ==
    UNION { {s \in [1..n -> h] : Injective(s)} : n \in 0..MaxMatches }

NoCtxArgs ==
    [matches |-> <<>>, include_context |-> FALSE, context_before |-> 0, context_after |-> 0]

CtxIdle ==
    /\ history = {}
    /\ ctx_args = NoCtxArgs
    /\ ctx_result = <<>>

\* calls share no state: one call is taken from each stored history
call_list_messages ==
    /\ ctx_args = NoCtxArgs
    /\ \E ms \in MatchSeqs(history), ic \in BOOLEAN,
          b \in 0..MaxContext, af \in 0..MaxContext :
         LET a == [matches |-> ms, include_context |-> ic,
                   context_before |-> b, context_after |-> af]
         IN  /\ ctx_args' = a
             /\ ctx_result' = list_messages(history, a)
    /\ UNCHANGED <<history, listVars, sendVars>>

----------------------------------------------------------------------------
(* Specifications *)

ListsIdle ==
    /\ chat_lists_file = NoFile
    /\ messages_db = [chats |-> {}, messages |-> {}]
    /\ NoCall

InitLists ==
    /\ chat_lists_file \in {NoFile} \cup {File(d) : d \in Dicts}
    /\ messages_db \in Stores
    /\ NoCall

Init == InitLists /\ SendIdle /\ CtxIdle

Next ==
    \/ call_get_list_chats
    \/ call_show_all_lists
    \/ load_exists
    \/ load_open
    \/ resolve
    \/ query
    \/ show_lists
    \/ replace_chat_lists
    \/ delete_chat_lists

Spec == Init /\ [][Next]_vars

InitSend == ListsIdle /\ SendIdle /\ CtxIdle

NextSend == call_send_message

SpecSend == InitSend /\ [][NextSend]_vars

InitCtx ==
    /\ ListsIdle /\ SendIdle
    /\ history \in SUBSET HistoryUniverse
    /\ ctx_args = NoCtxArgs
    /\ ctx_result = <<>>

NextCtx == call_list_messages

SpecCtx == InitCtx /\ [][NextCtx]_vars

----------------------------------------------------------------------------
(* Properties of the chat-list tools *)

Done(tool) == pc = "done" /\ op = tool
Returned == result.kind # "Raised"
ReadOk == read_log = <<"ok">>

HasLabel(d, name) == \E i \in 1..Len(d) : d[i].label = name
HasLabelCI(d, name) == \E i \in 1..Len(d) : lower(d[i].label) = lower(name)
FirstCI(d, name) ==
    CHOOSE i \in 1..Len(d) :
        /\ lower(d[i].label) = lower(name)
        /\ \A j \in 1..Len(d) : lower(d[j].label) = lower(name) => i <= j

\* kw occurs in name when letter case is ignored
OccursCI(kw, name) ==
    \E i \in 0..(Len(name) - Len(kw)) :
        \A k \in 1..Len(kw) : Lower(name[i + k]) = Lower(kw[k])

NonEmptyName(c) == c.name # Null /\ c.name # <<>>

Emitted(c) == \E i \in 1..Len(matches) : matches[i].jid = c.jid

\* C1: for every configured list L and every stored chat c, c is in the
\* result of get_list_chats(L) iff c's display name is non-empty and some
\* keyword of L occurs in it, case ignored.
C1_Membership ==
    (Done("get_list_chats") /\ HasLabel(lists, list_name) /\ "error" \notin Range(read_log))
    => \A c \in messages_db.chats :
         Emitted(c) <=>
           /\ NonEmptyName(c)
           /\ LET kws == Lookup(lists, list_name)
              IN  \E k \in 1..Len(kws) : OccursCI(kws[k], c.name)

\* C2: a requested name that equals a stored label up to letter case selects
\* exactly one stored list, the same for every case variant of the name, and
\* that list's keywords are used.
C2_LookupResolves ==
    (pc \in {"query", "done"} /\ op = "get_list_chats" /\ HasLabelCI(lists, list_name))
    => /\ result.kind # "NotFound"
       /\ matched_key = lists[FirstCI(lists, list_name)].label
       /\ keywords = lists[FirstCI(lists, list_name)].keywords

\* C3: a requested name that matches no stored label yields NotFound naming
\* every label of the configuration (an empty configuration included), and a
\* name that matches a stored label never yields NotFound.
C3_NotFound ==
    (Done("get_list_chats") /\ Returned)
    => IF HasLabelCI(lists, list_name)
       THEN result.kind # "NotFound"
       ELSE /\ result.kind = "NotFound"
            /\ \A i \in 1..Len(lists) : str_in(lists[i].label, result.available)

IsSubsequence(sub, seq) ==
    \E f \in [1..Len(sub) -> 1..Len(seq)] :
        /\ \A i, j \in 1..Len(sub) : i < j => f[i] < f[j]
        /\ \A i \in 1..Len(sub) : sub[i] = seq[f[i]]

\* C4: the emitted chats are ordered by last-activity time descending, and
\* the keyword filter neither reorders nor duplicates the rows of the store.
C4_Ordered ==
    (Done("get_list_chats") /\ ReadOk)
    => /\ IsSubsequence(matches, all_chats)
       /\ \A i, j \in 1..Len(matches) :
            i < j => matches[i].last_time >= matches[j].last_time
       /\ result.kind = "Listing" =>
            /\ Len(result.lines) = Len(matches)
            /\ \A i, j \in 1..Len(result.lines) :
                 i < j => result.lines[i].last_time >= result.lines[j].last_time

C4_Witness ==
    /\ Done("get_list_chats") /\ result.kind = "Listing"
    /\ Len(matches) < Len(all_chats)
    /\ \E i, j \in 1..Len(matches) :
         i < j /\ matches[i].last_time > matches[j].last_time

\* C5: a preview is the last message unchanged when it has at most 60
\* characters (empty when there is none) and its first 60 characters followed
\* by "..." when it has more.
C5_Preview ==
    (Done("get_list_chats") /\ result.kind = "Listing")
    => \A i \in 1..Len(matches) :
         LET m == matches[i].last_msg
             p == result.lines[i].preview
         IN  /\ m = Null => p = <<>>
             /\ (m # Null /\ Len(m) <= PreviewBudget) => p = m
             /\ (m # Null /\ Len(m) > PreviewBudget) =>
                    /\ Len(p) = PreviewBudget + 3
                    /\ \A k \in 1..PreviewBudget : p[k] = m[k]
                    /\ SubSeq(p, PreviewBudget + 1, PreviewBudget + 3) = Ellipsis

C5_Witness ==
    /\ Done("get_list_chats") /\ result.kind = "Listing"
    /\ \E i \in 1..Len(matches) :
         matches[i].last_msg # Null /\ Len(matches[i].last_msg) = PreviewBudget
    /\ \E i \in 1..Len(matches) :
         matches[i].last_msg # Null /\ Len(matches[i].last_msg) > PreviewBudget

C7_NoRetry ==
    /\ Len(read_log) <= 1
    /\ (pc = "done" /\ "error" \in Range(read_log))
       => result = DbError /\ matches = <<>> /\ all_chats = <<>>

C7_Witness == Done("get_list_chats") /\ read_log = <<"error">>

\* C9: one get_list_chats request reads the configuration once; the label it
\* resolves, the keywords it matches and the names it reports on NotFound all
\* come from that one snapshot, also when the file is replaced meanwhile.
C9_OneSnapshot ==
    op = "get_list_chats" =>
      /\ Len(file_reads) <= 1
      /\ LET snap == IF file_reads = <<>> THEN <<>> ELSE file_reads[1]
         IN  /\ pc \in {"loaded", "query", "done"} => lists = snap
             /\ (pc \in {"query", "done"} /\ snap # <<>> /\ Returned) =>
                   matched_key = first_key(snap, list_name)
             /\ pc = "query" \/ (pc = "done" /\ result.kind \in {"Listing", "NoChats"}) =>
                   /\ HasLabel(snap, matched_key)
                   /\ keywords = Lookup(snap, matched_key)
             /\ (pc = "done" /\ result.kind \in {"Listing", "NoChats"}) =>
                   /\ result.matched_key = matched_key
                   /\ matches = filter_rows(all_chats, Lookup(snap, matched_key))
             /\ (pc = "done" /\ result.kind = "NotFound") =>
                   result.available = join(CommaSpace, Keys(snap))

C9_Witness ==
    /\ pc = "query" /\ op = "get_list_chats"
    /\ chat_lists_file.exists
    /\ chat_lists_file.content # lists
    /\ HasLabel(chat_lists_file.content, matched_key)
    /\ Lookup(chat_lists_file.content, matched_key) # keywords

----------------------------------------------------------------------------
(* Properties of list_messages and send_message *)

Untagged(e) == [id |-> e.id, chat_jid |-> e.chat_jid, timestamp |-> e.timestamp]

\* C8: every context window list_messages returns is strictly increasing by
\* timestamp, ties broken by identifier, holds no message identifier twice,
\* and tags as a match every message that is one of the matches.
C8_Windows ==
    \A w \in 1..Len(ctx_result) :
        LET W == ctx_result[w]
        IN  /\ \A i, j \in 1..Len(W) : i < j => Earlier(W[i], W[j]) /\ W[i].id # W[j].id
            /\ \A i \in 1..Len(W) :
                 Untagged(W[i]) \in Range(ctx_args.matches) => W[i].tag = "match"

C8_Witness ==
    /\ ctx_args.include_context
    /\ ctx_args.context_before >= 1 /\ ctx_args.context_after >= 1
    /\ \E w \in 1..Len(ctx_result) :
         LET W == ctx_result[w]
         IN  /\ \E i \in 1..Len(W) : W[i].tag = "context"
             /\ \E i \in 1..(Len(W) - 1) :
                  /\ W[i].tag = "match" /\ W[i + 1].tag = "match"
                  /\ W[i].timestamp = W[i + 1].timestamp

\* C10: send_message hands the text to the transport exactly once when the
\* recipient is non-empty and returns the transport's (ok, statusText); with
\* an empty recipient it returns success = false and the transport is not used.
C10_SendOnce ==
    [][IF send_args'.recipient = <<>>
       THEN /\ outbox' = outbox
            /\ send_result'.success = FALSE
       ELSE /\ outbox' = Append(outbox, [recipient |-> send_args'.recipient,
                                         body |-> send_args'.message])
            /\ send_result' = [success |-> transport_reply'.ok,
                               message |-> transport_reply'.status]]_vars

C10_Witness ==
    /\ Len(outbox) = 1
    /\ transport_reply.ok /\ transport_reply.status = "Message sent"
    /\ send_args.recipient = <<>>
    /\ send_result = [success |-> FALSE, message |-> "Recipient must be provided"]

====
